---- MODULE Spec2Model ----
(***************************************************************************)
(* A model of two parts of macropy:                                        *)
(*   - the matcher algebra of macropy/experimental/pattern.py (matcher     *)
(*     construction with its variable-conflict check, match, _match_value  *)
(*     and get_var), specification SpecMatch;                              *)
(*   - the Scoped walker of macropy/core/analysis.py (name-binding         *)
(*     analysis threaded through a Walker traversal), specification        *)
(*     SpecScoped.                                                         *)
(***************************************************************************)
EXTENDS Integers, Sequences, FiniteSets, TLC

VARIABLES
    \* ---- pattern.py ----
    phase,      \* "build": matcher expressions are being evaluated; "match": a matcher object is bound to a name
    stk,        \* matchers constructed so far by the enclosing constructor call (its evaluated arguments)
    lastExc,    \* exception raised by the last operation ("" when it returned)
    lastCtor,   \* the last constructor call: the class and the sub-matchers it was given
    obj,        \* the matcher object on which _match_value / get_var are called
    var_dict,   \* obj.var_dict: [set |-> FALSE] before the first _match_value
    lastRes,    \* the last _match_value call: its matchee and what match(matchee) returned or raised
    lastOk      \* history: the bindings returned by the most recent successful match on obj

mvars == <<phase, stk, lastExc, lastCtor, obj, var_dict, lastRes, lastOk>>

VARIABLES
    \* ---- analysis.py ----
    tree,       \* the tree handed to Scoped.recurse_collect
    status,     \* "idle", "walking", "done", or "aborted" (an exception left the traversal)
    heap,       \* the scope dictionaries created so far, by reference
    todo,       \* the node visits still to make, in order: [path, ref, sub_kw]
    visits      \* the calls made to the wrapped visitor: [path, ref, entry, seen]

svars == <<tree, status, heap, todo, visits>>
vars == <<mvars, svars>>

(***************************************************************************)
(* Bounds of the model.                                                    *)
(***************************************************************************)
MaxNodes == 4       \* matcher nodes alive on the construction stack
MaxMatchNodes == 3  \* nodes of a matcher on which _match_value is called
MaxArity == 2       \* sub-matchers of a tuple / list / class matcher

(***************************************************************************)
(* Python values that are matched (matchees).  One record shape for all.   *)
(***************************************************************************)
PyInt(n) == [kind |-> "int", n |-> n, elts |-> <<>>, cls |-> "", attrs |-> <<>>]
PyNone == [kind |-> "NoneType", n |-> 0, elts |-> <<>>, cls |-> "", attrs |-> <<>>]
PyTuple(es) == [kind |-> "tuple", n |-> 0, elts |-> es, cls |-> "", attrs |-> <<>>]
PyList(es) == [kind |-> "list", n |-> 0, elts |-> es, cls |-> "", attrs |-> <<>>]
\* an instance of class c whose instance attributes are the entries of as
PyObj(c, as) == [kind |-> "object", n |-> 0, elts |-> <<>>, cls |-> c, attrs |-> as]
Attr(k, v) == [key |-> k, val |-> v]

\* class Point: def __init__(self, x, y)
InitArgs(c) == IF c = "Point" THEN <<"self", "x", "y">> ELSE <<"self">>

SeqsUpTo(S, n) == UNION {[1..k -> S] : k \in 0..n}

Atoms == {PyInt(5), PyInt(6), PyNone}
SmallAtoms == {PyInt(5), PyInt(6)}
Objects ==
    {PyObj("Point", xs \o ys) :
        xs \in {<<>>, <<Attr("x", PyInt(5))>>, <<Attr("x", PyInt(6))>>},
        ys \in {<<>>, <<Attr("y", PyInt(5))>>}}
    \cup {PyObj("Other", <<Attr("x", PyInt(5))>>)}
Level1 ==
    Atoms \cup Objects
    \cup {PyTuple(es) : es \in SeqsUpTo(SmallAtoms, 2)}
    \cup {PyList(es) : es \in SeqsUpTo(SmallAtoms, 2)}
    \cup {PyTuple(<<PyInt(5), PyInt(6), PyInt(5)>>)}
Inner == {PyInt(5), PyTuple(<<PyInt(5)>>), PyObj("Point", <<Attr("y", PyInt(5))>>)}
Values ==
    Level1
    \cup {PyTuple(es) : es \in SeqsUpTo(Inner, 2)}
    \cup {PyList(<<PyTuple(<<PyInt(5)>>)>>), PyList(<<PyList(<<PyInt(5)>>)>>)}

(***************************************************************************)
(* Python attribute access on a matchee.                                   *)
(***************************************************************************)
hasattr(v, k) == \E i \in 1..Len(v.attrs) : v.attrs[i].key = k
getattr(v, k) == v.attrs[CHOOSE i \in 1..Len(v.attrs) : v.attrs[i].key = k].val
getattr_default(v, k, d) == IF hasattr(v, k) THEN getattr(v, k) ELSE d
isinstance(v, c) ==
    CASE c = "tuple" -> v.kind = "tuple"
      [] c = "list" -> v.kind = "list"
      [] OTHER -> v.kind = "object" /\ v.cls = c

(***************************************************************************)
(* Matchers.  One record shape for all the Matcher subclasses:             *)
(*   LiteralMatcher: val; NameMatcher: name; TupleMatcher / ListMatcher:   *)
(*   matchers; ParallelMatcher: matchers = <<matcher1, matcher2>>;         *)
(*   ClassMatcher: clazz, matchers = positionalMatchers, kw = kwMatchers   *)
(*   as the sequence of its (key, matcher) items in insertion order.       *)
(***************************************************************************)
Mk(k, v, nm, ms, c, kws) ==
    [kind |-> k, val |-> v, name |-> nm, matchers |-> ms, clazz |-> c, kw |-> kws]
LiteralMatcher(v) == Mk("Literal", v, "", <<>>, "", <<>>)
NameMatcher(nm) == Mk("Name", PyNone, nm, <<>>, "", <<>>)
WildcardMatcher == Mk("Wildcard", PyNone, "", <<>>, "", <<>>)
TupleMatcher(ms) == Mk("Tuple", PyNone, "", ms, "", <<>>)
ListMatcher(ms) == Mk("List", PyNone, "", ms, "", <<>>)
ParallelMatcher(m1, m2) == Mk("Parallel", PyNone, "", <<m1, m2>>, "", <<>>)
ClassMatcher(c, pos, kws) == Mk("Class", PyNone, "", pos, c, kws)
KwItem(k, m) == [key |-> k, m |-> m]

\* kwMatchers.values()
KwValues(kws) == [i \in 1..Len(kws) |-> kws[i].m]
\* kwMatchers.keys()
KwKeys(kws) == [i \in 1..Len(kws) |-> kws[i].key]

\* util.flatten on a list of lists of names: the names, in order
RECURSIVE flatten(_)
flatten(xss) == IF xss = <<>> THEN <<>> ELSE Head(xss) \o flatten(Tail(xss))

SeqToSet(s) == {s[i] : i \in 1..Len(s)}

_vars_are_disjoint(names) == Len(names) = Cardinality(SeqToSet(names))

\* The children whose var_names() a composite matcher flattens.
Children(m) == IF m.kind = "Class" THEN m.matchers \o KwValues(m.kw) ELSE m.matchers

\* var_names() of a composite that forgets its sub-matchers' names
var_names_shallow(m) ==
    CASE m.kind = "Name" -> <<m.name>>
      [] m.kind = "Wildcard" -> <<"_">>
      [] OTHER -> <<>>

RECURSIVE var_names(_)
var_names(m) ==
    CASE m.kind = "Literal" -> <<>>
      [] m.kind = "Name" -> <<m.name>>
      [] m.kind = "Wildcard" -> <<"_">>
      [] OTHER -> flatten([i \in 1..Len(Children(m)) |-> var_names(Children(m)[i])])

\* The check every composite constructor makes on its sub-matchers.
CtorConflict(children) ==
    ~ _vars_are_disjoint(flatten([i \in 1..Len(children) |-> var_names(children[i])]))

(***************************************************************************)
(* match(matchee): the bindings, or PatternMatchException.                 *)
(***************************************************************************)
Ok(updates) == [exc |-> "", updates |-> updates]
Raise(e) == [exc |-> e, updates |-> <<>>]
Binding(nm, v) == [name |-> nm, value |-> v]

\* Whether the interpreter's inspect module has getargspec.  It was removed
\* in Python 3.11, the interpreter the program runs on: reading
\* inspect.getargspec raises AttributeError.
HasGetargspec == FALSE

\* hasattr(self.clazz, '__unapply__'): no class matched here defines it
has_unapply(c) == FALSE

\* The generator genPosValues of default_unapply, as what advancing it gives:
\* the values it yields, or the exception its first step raises.
genPosValues(m, matchee) ==
    IF ~ HasGetargspec THEN [exc |-> "AttributeError", vals |-> <<>>]
    ELSE LET args == SelectSeq(InitArgs(m.clazz), LAMBDA a : a # "self")
         IN [exc |-> "",
             vals |-> [i \in 1..Len(args) |-> getattr_default(matchee, args[i], PyNone)]]

\* ClassMatcher.default_unapply: (pos_values, kw_dict), or
\* PatternMatchException; pos_values is the generator, not yet advanced
default_unapply(m, matchee, kw_keys) ==
    IF ~ isinstance(matchee, m.clazz)
    THEN [exc |-> "PatternMatchException", pos_values |-> [exc |-> "", vals |-> <<>>],
          kw_dict |-> <<>>]
    ELSE IF \E i \in 1..Len(kw_keys) : ~ hasattr(matchee, kw_keys[i])
         THEN [exc |-> "PatternMatchException", pos_values |-> [exc |-> "", vals |-> <<>>],
               kw_dict |-> <<>>]
         ELSE [exc |-> "", pos_values |-> genPosValues(m, matchee),
               kw_dict |-> [i \in 1..Len(kw_keys) |->
                               Attr(kw_keys[i], getattr(matchee, kw_keys[i]))]]

\* self.kwMatchers[key]
KwLookup(kws, k) == kws[CHOOSE i \in 1..Len(kws) : kws[i].key = k].m

RECURSIVE match(_, _), MatchZip(_, _)
\* for (matcher, sub_matchee) in zip(ms, vs): updates.extend(matcher.match(sub_matchee))
MatchZip(ms, vs) ==
    IF ms = <<>> \/ vs = <<>> THEN Ok(<<>>)
    ELSE LET r == match(Head(ms), Head(vs))
         IN IF r.exc # "" THEN r
            ELSE LET rest == MatchZip(Tail(ms), Tail(vs))
                 IN IF rest.exc # "" THEN rest ELSE Ok(r.updates \o rest.updates)

LiteralMatch(m, matchee) ==
    IF m.val # matchee THEN Raise("PatternMatchException") ELSE Ok(<<>>)

\* TupleMatcher.match without the length test: zip stops at the shorter side
TupleMatch_nolen(m, matchee) ==
    IF ~ isinstance(matchee, "tuple")
    THEN Raise("PatternMatchException")
    ELSE MatchZip(m.matchers, matchee.elts)

TupleMatch(m, matchee) ==
    IF ~ isinstance(matchee, "tuple") \/ Len(matchee.elts) # Len(m.matchers)
    THEN Raise("PatternMatchException")
    ELSE MatchZip(m.matchers, matchee.elts)

ListMatch(m, matchee) ==
    IF ~ isinstance(matchee, "list") \/ Len(matchee.elts) # Len(m.matchers)
    THEN Raise("PatternMatchException")
    ELSE MatchZip(m.matchers, matchee.elts)

ParallelMatch(m, matchee) == MatchZip(m.matchers, <<matchee, matchee>>)

NameMatch(m, matchee) == Ok(<<Binding(m.name, matchee)>>)

WildcardMatch(m, matchee) == Ok(<<Binding("_", PyInt(3))>>)

\* ClassMatcher.match; zip advances the generator of positional values only
\* when there is a positional sub-matcher
ClassMatch(m, matchee) ==
    LET u == IF has_unapply(m.clazz)
             THEN [exc |-> "", pos_values |-> [exc |-> "", vals |-> <<>>], kw_dict |-> <<>>]
             ELSE default_unapply(m, matchee, KwKeys(m.kw))
    IN IF u.exc # "" THEN Raise(u.exc)
       ELSE IF m.matchers # <<>> /\ u.pos_values.exc # "" THEN Raise(u.pos_values.exc)
       ELSE LET p == MatchZip(m.matchers, u.pos_values.vals)
            IN IF p.exc # "" THEN p
               ELSE LET k == MatchZip(
                                [i \in 1..Len(u.kw_dict) |-> KwLookup(m.kw, u.kw_dict[i].key)],
                                [i \in 1..Len(u.kw_dict) |-> u.kw_dict[i].val])
                    IN IF k.exc # "" THEN k ELSE Ok(p.updates \o k.updates)

match(m, matchee) ==
    CASE m.kind = "Literal" -> LiteralMatch(m, matchee)
      [] m.kind = "Name" -> NameMatch(m, matchee)
      [] m.kind = "Wildcard" -> WildcardMatch(m, matchee)
      [] m.kind = "Tuple" -> TupleMatch(m, matchee)
      [] m.kind = "List" -> ListMatch(m, matchee)
      [] m.kind = "Parallel" -> ParallelMatch(m, matchee)
      [] m.kind = "Class" -> ClassMatch(m, matchee)

\* The dictionary _match_value fills from the bindings, as its set of items:
\* a later binding of a name replaces an earlier one.
DictOf(updates) ==
    {updates[i] : i \in {j \in 1..Len(updates) :
        \A k \in (j+1)..Len(updates) : updates[k].name # updates[j].name}}

\* Matcher.get_var on a var_dict: the value, or KeyError / AttributeError
get_var(vd, var_name) ==
    IF ~ vd.set THEN [exc |-> "AttributeError", value |-> PyNone]
    ELSE IF \E b \in vd.d : b.name = var_name
         THEN [exc |-> "", value |-> (CHOOSE b \in vd.d : b.name = var_name).value]
         ELSE [exc |-> "KeyError", value |-> PyNone]

(***************************************************************************)
(* The matcher side as a state machine.  A pattern is compiled by          *)
(* build_matcher into nested constructor calls; evaluating them builds the *)
(* sub-matchers first (stk holds the evaluated arguments) and then runs    *)
(* the composite's constructor, which raises PatternVarConflict or yields  *)
(* the matcher.  The finished matcher is bound to a name and               *)
(* _match_value is called on it.                                           *)
(***************************************************************************)
LiteralVals == {PyInt(5), PyNone}
VarNames == {"a", "b"}
KwNames == {"x"}
Classes == {"Point"}

RECURSIVE Size(_)
SumSize(ms) == LET RECURSIVE S(_)
                   S(i) == IF i = 0 THEN 0 ELSE Size(ms[i]) + S(i - 1)
               IN S(Len(ms))
Size(m) == 1 + SumSize(Children(m))

NoRes == [matchee |-> PyNone, exc |-> "none", updates |-> <<>>]
NoDict == [set |-> FALSE, d |-> {}]
NoOk == [some |-> FALSE, d |-> {}]

MIdle ==
    /\ phase = "build"
    /\ stk = <<>>
    /\ lastExc = ""
    /\ lastCtor = [op |-> "", children |-> <<>>]
    /\ obj = WildcardMatcher
    /\ var_dict = NoDict
    /\ lastRes = NoRes
    /\ lastOk = NoOk

Room == phase = "build" /\ SumSize(stk) < MaxNodes

Push(m) ==
    /\ stk' = Append(stk, m)
    /\ lastExc' = ""
    /\ lastCtor' = [op |-> m.kind, children |-> <<>>]
    /\ UNCHANGED <<phase, obj, var_dict, lastRes, lastOk>>
    /\ UNCHANGED svars

\* the last n matchers built: the arguments of the constructor being called
Args(n) == SubSeq(stk, Len(stk) - n + 1, Len(stk))

\* A composite constructor over its n arguments: the check of its __init__.
Construct(n, children, m) ==
    /\ lastCtor' = [op |-> m.kind, children |-> children]
    /\ IF CtorConflict(children)
       THEN /\ lastExc' = "PatternVarConflict"
            /\ stk' = <<>>
       ELSE /\ lastExc' = ""
            /\ stk' = Append(SubSeq(stk, 1, Len(stk) - n), m)
    /\ UNCHANGED <<phase, obj, var_dict, lastRes, lastOk>>
    /\ UNCHANGED svars

NewLiteral == \E v \in LiteralVals : Room /\ Push(LiteralMatcher(v))

NewName == \E nm \in VarNames : Room /\ Push(NameMatcher(nm))

NewWildcard == Room /\ Push(WildcardMatcher)

NewTuple ==
    \E n \in 0..MaxArity :
        /\ Room /\ n <= Len(stk)
        /\ Construct(n, Args(n), TupleMatcher(Args(n)))

NewList ==
    \E n \in 0..MaxArity :
        /\ Room /\ n <= Len(stk)
        /\ Construct(n, Args(n), ListMatcher(Args(n)))

NewParallel ==
    /\ Room /\ 2 <= Len(stk)
    /\ Construct(2, Args(2), ParallelMatcher(Args(2)[1], Args(2)[2]))

\* ClassMatcher(clazz, [positional...], key=matcher...): npos positional
\* arguments, then one keyword argument per key of keys.
NewClass ==
    \E c \in Classes, npos \in 0..MaxArity, keys \in SeqsUpTo(KwNames, 1) :
        LET n == npos + Len(keys)
            pos == SubSeq(Args(n), 1, npos)
            kws == [i \in 1..Len(keys) |-> KwItem(keys[i], Args(n)[npos + i])]
        IN /\ Room /\ n <= Len(stk)
           /\ Construct(n, pos \o KwValues(kws), ClassMatcher(c, pos, kws))

\* name[temp] = <the matcher expression>
Bind ==
    /\ phase = "build" /\ Len(stk) = 1 /\ Size(stk[1]) <= MaxMatchNodes
    /\ phase' = "match"
    /\ obj' = stk[1]
    /\ stk' = <<>>
    /\ var_dict' = NoDict
    /\ UNCHANGED <<lastExc, lastCtor, lastRes, lastOk>>
    /\ UNCHANGED svars

\* Matcher._match_value(matchee)
MatchValueOn(matchee) ==
    LET r == match(obj, matchee)
    IN /\ var_dict' = [set |-> TRUE, d |-> IF r.exc = "" THEN DictOf(r.updates) ELSE {}]
       /\ lastExc' = r.exc
       /\ lastRes' = [matchee |-> matchee, exc |-> r.exc, updates |-> r.updates]
       /\ lastOk' = IF r.exc = "" THEN [some |-> TRUE, d |-> DictOf(r.updates)] ELSE lastOk
       /\ UNCHANGED <<phase, stk, lastCtor, obj>>
       /\ UNCHANGED svars

_match_value == \E matchee \in Values : phase = "match" /\ MatchValueOn(matchee)

MNext ==
    \/ NewLiteral \/ NewName \/ NewWildcard
    \/ NewTuple \/ NewList \/ NewParallel \/ NewClass
    \/ Bind
    \/ _match_value

(***************************************************************************)
(* Properties of the matcher algebra (checked under SpecMatch).            *)
(***************************************************************************)
Composite == {"Tuple", "List", "Parallel", "Class"}
AllVarNames == VarNames \cup {"_"}

\* How many leaves of m bind nm, counted over the whole matcher tree.
RECURSIVE NameCount(_, _)
NameCountAll(ms, nm) ==
    LET RECURSIVE S(_)
        S(i) == IF i = 0 THEN 0 ELSE NameCount(ms[i], nm) + S(i - 1)
    IN S(Len(ms))
NameCount(m, nm) ==
    CASE m.kind = "Literal" -> 0
      [] m.kind = "Name" -> IF m.name = nm THEN 1 ELSE 0
      [] m.kind = "Wildcard" -> IF nm = "_" THEN 1 ELSE 0
      [] OTHER -> NameCountAll(m.matchers \o KwValues(m.kw), nm)

DupAmong(children) == \E nm \in AllVarNames : NameCountAll(children, nm) >= 2

CtorCalled == phase = "build" /\ lastCtor.op \in Composite

\* C1: a composite constructor (tuple, list, parallel, class over positional
\* and keyword sub-matchers) raises PatternVarConflict, before anything is
\* matched, exactly when some variable name occurs more than once among its
\* children's names at any nesting depth; otherwise it yields the composite
\* over those children.
C1_CtorConflict ==
    CtorCalled =>
        IF DupAmong(lastCtor.children)
        THEN lastExc = "PatternVarConflict" /\ stk = <<>> /\ lastRes = NoRes
        ELSE /\ lastExc = ""
             /\ stk # <<>>
             /\ stk[Len(stk)].kind = lastCtor.op
             /\ stk[Len(stk)].matchers \o KwValues(stk[Len(stk)].kw) = lastCtor.children

\* C1 witness: a constructor refused children whose clash lies below a
\* nested composite (the name is repeated across nesting depths).
C1_Witness ==
    /\ CtorCalled /\ lastExc = "PatternVarConflict"
    /\ \E i \in 1..Len(lastCtor.children) :
          /\ lastCtor.children[i].kind \in Composite
          /\ \E nm \in VarNames :
                /\ NameCount(lastCtor.children[i], nm) = 1
                /\ NameCountAll(lastCtor.children, nm) = 2

MatchCalled == phase = "match" /\ lastRes.exc # "none"

\* C2: a TupleMatcher (ListMatcher) of arity n succeeds on v iff v is a
\* tuple (list) of exactly n elements each matched by the sub-matcher of its
\* position, and then returns the sub-matchers' bindings concatenated in
\* order; otherwise it raises PatternMatchException and binds nothing.
C2_TupleListMatch ==
    (MatchCalled /\ obj.kind \in {"Tuple", "List"}) =>
        LET v == lastRes.matchee
            n == Len(obj.matchers)
            container == IF obj.kind = "Tuple" THEN "tuple" ELSE "list"
            shape == v.kind = container /\ Len(v.elts) = n
            ok == shape /\ \A i \in 1..n : match(obj.matchers[i], v.elts[i]).exc = ""
        IN IF ok
           THEN /\ lastRes.exc = "" /\ lastExc = ""
                /\ lastRes.updates =
                      flatten([i \in 1..n |-> match(obj.matchers[i], v.elts[i]).updates])
           ELSE /\ lastRes.exc = "PatternMatchException" /\ lastExc = "PatternMatchException"
                /\ lastRes.updates = <<>>

\* C2 witness: TupleMatcher(NameMatcher('a'), LiteralMatcher(5)) matched
\* (6, 5) and returned [('a', 6)].
C2_Witness ==
    /\ MatchCalled
    /\ obj = TupleMatcher(<<NameMatcher("a"), LiteralMatcher(PyInt(5))>>)
    /\ lastRes.matchee = PyTuple(<<PyInt(6), PyInt(5)>>)
    /\ lastRes.updates = <<Binding("a", PyInt(6))>>

Min(a, b) == IF a < b THEN a ELSE b

\* An attribute the class match reads is absent from the matchee: the one
\* named after the constructor parameter of a positional sub-matcher, or
\* the one a keyword sub-matcher names.
NeededAttrMissing(m, v) ==
    LET args == SelectSeq(InitArgs(m.clazz), LAMBDA a : a # "self")
    IN \/ \E i \in 1..Min(Len(m.matchers), Len(args)) : ~ hasattr(v, args[i])
       \/ \E i \in 1..Len(m.kw) : ~ hasattr(v, m.kw[i].key)

\* C3: with the default destructuring, a ClassMatcher whose match needs an
\* attribute the matched object lacks raises PatternMatchException.
C3_MissingAttrFails ==
    (/\ MatchCalled /\ obj.kind = "Class"
     /\ isinstance(lastRes.matchee, obj.clazz)
     /\ NeededAttrMissing(obj, lastRes.matchee))
        => lastRes.exc = "PatternMatchException"

\* C4: once a match on the matcher has succeeded, the cached var_dict is the
\* bindings of the most recent successful match, whatever calls failed
\* since, and get_var returns each value that match bound.
C4_CachedBindings ==
    (phase = "match" /\ lastOk.some) =>
        /\ var_dict.set /\ var_dict.d = lastOk.d
        /\ \A b \in lastOk.d : get_var(var_dict, b.name) = [exc |-> "", value |-> b.value]

\* C10: a composite constructor given two or more WildcardMatchers and
\* NameMatchers of pairwise distinct names does not raise
\* PatternVarConflict, and a wildcard position of a tuple or list matcher
\* binds none of the pattern's variables.
C10_WildcardsNoConflict ==
    /\ (/\ CtorCalled
         /\ Cardinality({i \in 1..Len(lastCtor.children) :
                            lastCtor.children[i].kind = "Wildcard"}) >= 2
         /\ \A nm \in VarNames : NameCountAll(lastCtor.children, nm) <= 1)
            => lastExc # "PatternVarConflict"
    /\ (MatchCalled /\ obj.kind \in {"Tuple", "List"} /\ lastRes.exc = "") =>
            \A i \in 1..Len(obj.matchers) :
                obj.matchers[i].kind = "Wildcard" =>
                    \A u \in SeqToSet(match(obj.matchers[i], lastRes.matchee.elts[i]).updates) :
                        u.name \notin VarNames

(***************************************************************************)
(*                         macropy/core/analysis.py                        *)
(*                                                                         *)
(* Program trees.  A node is [kind, name, fields]: name holds the node's   *)
(* identifier attribute (Name.id, arg.arg, FunctionDef.name,               *)
(* ClassDef.name, ExceptHandler.name), fields its child fields in the      *)
(* order of the node class's _fields, each a single (or absent) node or a  *)
(* list of nodes.  Fields that hold no node (identifiers, contexts,        *)
(* absent optional nodes) have no children and are left out.  A node is    *)
(* identified by its path from the root: the (field, index) steps.         *)
(***************************************************************************)
MaxBody == 2        \* simple statements in a block

NoneKey == "<None>"     \* the dictionary key None (no identifier is spelt so)

Node(k, nm, fs) == [kind |-> k, name |-> nm, fields |-> fs]
One(f, n) == [f |-> f, list |-> FALSE, items |-> <<n>>]
Lst(f, ns) == [f |-> f, list |-> TRUE, items |-> ns]

Name(id) == Node("Name", id, <<>>)
Attribute(v) == Node("Attribute", "", <<One("value", v)>>)
TupleExpr(es) == Node("Tuple", "", <<Lst("elts", es)>>)
arg(id) == Node("arg", id, <<>>)
\* vararg and kwarg are sequences of at most one arg
arguments(as, vararg, kwonly, kw_defaults, kwarg, defaults) ==
    Node("arguments", "",
         <<Lst("posonlyargs", <<>>), Lst("args", as)>>
         \o (IF vararg = <<>> THEN <<>> ELSE <<One("vararg", vararg[1])>>)
         \o <<Lst("kwonlyargs", kwonly), Lst("kw_defaults", kw_defaults)>>
         \o (IF kwarg = <<>> THEN <<>> ELSE <<One("kwarg", kwarg[1])>>)
         \o <<Lst("defaults", defaults)>>)
Lambda(as, body) == Node("Lambda", "", <<One("args", as), One("body", body)>>)
comprehension(target, iter, ifs) ==
    Node("comprehension", "", <<One("target", target), One("iter", iter), Lst("ifs", ifs)>>)
ListComp(elt, gens) == Node("ListComp", "", <<One("elt", elt), Lst("generators", gens)>>)
DictComp(k, v, gens) ==
    Node("DictComp", "", <<One("key", k), One("value", v), Lst("generators", gens)>>)
Module(body) == Node("Module", "", <<Lst("body", body)>>)
Expr(v) == Node("Expr", "", <<One("value", v)>>)
Assign(targets, v) == Node("Assign", "", <<Lst("targets", targets), One("value", v)>>)
FunctionDef(nm, as, body, decos) ==
    Node("FunctionDef", nm, <<One("args", as), Lst("body", body), Lst("decorator_list", decos)>>)
ClassDef(nm, bases, body) ==
    Node("ClassDef", nm,
         <<Lst("bases", bases), Lst("keywords", <<>>), Lst("body", body),
           Lst("decorator_list", <<>>)>>)
For(target, iter, body) ==
    Node("For", "", <<One("target", target), One("iter", iter), Lst("body", body),
                      Lst("orelse", <<>>)>>)
withitem(ctx, optional_vars) ==
    Node("withitem", "",
         <<One("context_expr", ctx)>>
         \o (IF optional_vars = <<>> THEN <<>> ELSE <<One("optional_vars", optional_vars[1])>>))
With(items, body) == Node("With", "", <<Lst("items", items), Lst("body", body)>>)
\* nm = NoneKey for a handler without `as`
ExceptHandler(type, nm, body) ==
    Node("ExceptHandler", nm, <<One("type", type), Lst("body", body)>>)
Try(body, handlers) ==
    Node("Try", "", <<Lst("body", body), Lst("handlers", handlers), Lst("orelse", <<>>),
                      Lst("finalbody", <<>>)>>)
If(test, body) == Node("If", "", <<One("test", test), Lst("body", body), Lst("orelse", <<>>)>>)

Step(f, i) == [f |-> f, i |-> i]
HasField(n, f) == \E j \in 1..Len(n.fields) : n.fields[j].f = f
Field(n, f) == n.fields[CHOOSE j \in 1..Len(n.fields) : n.fields[j].f = f]
\* the node(s) of field f, as a sequence (empty for an absent field)
Items(n, f) == IF HasField(n, f) THEN Field(n, f).items ELSE <<>>

RECURSIVE NodeAt(_, _)
NodeAt(n, p) == IF p = <<>> THEN n ELSE NodeAt(Field(n, Head(p).f).items[Head(p).i], Tail(p))

Concat(xss) == flatten(xss)

\* Walker.walk_children: the child nodes of the node at p, in field order
Kids(n, p) ==
    Concat([j \in 1..Len(n.fields) |->
              [i \in 1..Len(n.fields[j].items) |->
                  [path |-> Append(p, Step(n.fields[j].f, i)), node |-> n.fields[j].items[i]]]])

(***************************************************************************)
(* Scope dictionaries: functions from keys to the binding node, which is   *)
(* a node of the tree (by path) or a Name node made for the binding.       *)
(***************************************************************************)
NodeRef(p) == [at |-> p, fresh |-> FALSE]
FreshName(p) == [at |-> p, fresh |-> TRUE]
Pair(k, v) == [key |-> k, val |-> v]
EmptyDict == [k \in {} |-> NodeRef(<<>>)]

\* dict(pairs): a later pair replaces an earlier one of the same key
dict(pairs) ==
    [k \in {pairs[i].key : i \in 1..Len(pairs)} |->
        pairs[CHOOSE i \in 1..Len(pairs) :
                /\ pairs[i].key = k
                /\ \A j \in (i+1)..Len(pairs) : pairs[j].key # k].val]

\* macropy.core.util.merge_dicts: a new dictionary, later dictionaries taking precedence
RECURSIVE merge_dicts(_)
merge_dicts(ds) ==
    IF ds = <<>> THEN EmptyDict
    ELSE LET init == merge_dicts(SubSeq(ds, 1, Len(ds) - 1))
             last == ds[Len(ds)]
         IN [k \in DOMAIN init \cup DOMAIN last |-> IF k \in DOMAIN last THEN last[k] ELSE init[k]]

\* find_names.collect(x): the Name nodes at or below x, none below an
\* Attribute or Subscript
RECURSIVE find_names(_, _)
find_names(n, p) ==
    IF n.kind \in {"Attribute", "Subscript"} THEN <<>>
    ELSE (IF n.kind = "Name" THEN <<Pair(n.name, NodeRef(p))>> ELSE <<>>)
         \o Concat([j \in 1..Len(Kids(n, p)) |-> find_names(Kids(n, p)[j].node, Kids(n, p)[j].path)])

\* find_names.collect on the node(s) of field f of the node at p
find_names_in(n, p, f) ==
    Concat([i \in 1..Len(Items(n, f)) |-> find_names(Items(n, f)[i], Append(p, Step(f, i)))])

\* find_assignments.collect(x)
RECURSIVE find_assignments(_, _)
find_assignments(n, p) ==
    IF n.kind \in {"ClassDef", "FunctionDef"} THEN <<Pair(n.name, NodeRef(p))>>
    ELSE (IF n.kind = "Assign" THEN find_names_in(n, p, "targets") ELSE <<>>)
         \o Concat([j \in 1..Len(Kids(n, p)) |->
                      find_assignments(Kids(n, p)[j].node, Kids(n, p)[j].path)])

find_assignments_in(n, p, f) ==
    Concat([i \in 1..Len(Items(n, f)) |-> find_assignments(Items(n, f)[i], Append(p, Step(f, i)))])

PY3 == TRUE

\* extract_arg_names(args) for the arguments node a at path p
extract_arg_names(a, p) ==
    dict((IF HasField(a, "vararg")
          THEN <<Pair(Items(a, "vararg")[1].name, NodeRef(Append(p, Step("vararg", 1))))>>
          ELSE <<>>)
         \o (IF HasField(a, "kwarg")
             THEN <<Pair(Items(a, "kwarg")[1].name, NodeRef(Append(p, Step("kwarg", 1))))>>
             ELSE <<>>)
         \o [i \in 1..Len(Items(a, "args")) |->
               Pair(Items(a, "args")[i].name, FreshName(Append(p, Step("args", i))))])

(***************************************************************************)
(* Scoped.func: the extend_scope calls it makes for a node, by node kind.  *)
(* A call names the child field whose context it sets (the field `f` of    *)
(* the node at `at`), the dictionaries merged over the current scope, and  *)
(* the keys removed.                                                       *)
(***************************************************************************)
Call(at, f, dicts, remove) == [at |-> at, f |-> f, dicts |-> dicts, remove |-> remove]

LambdaExt(n, p) ==
    <<Call(p, "body", <<extract_arg_names(Items(n, "args")[1], Append(p, Step("args", 1)))>>, <<>>)>>

\* iterator_vars after the first i generators of the comprehension at p
RECURSIVE IteratorVars(_, _, _)
IteratorVars(n, p, i) ==
    IF i = 0 THEN EmptyDict
    ELSE merge_dicts(<<IteratorVars(n, p, i - 1),
                       dict(find_names_in(Items(n, "generators")[i],
                                          Append(p, Step("generators", i)), "target"))>>)

CompExt(n, p) ==
    Concat([i \in 1..Len(Items(n, "generators")) |->
              LET gp == Append(p, Step("generators", i))
              IN <<Call(gp, "target", <<IteratorVars(n, p, i - 1)>>, <<>>),
                   Call(gp, "iter", <<IteratorVars(n, p, i - 1)>>, <<>>),
                   Call(gp, "ifs", <<IteratorVars(n, p, i)>>, <<>>)>>])
    \o LET iv == IteratorVars(n, p, Len(Items(n, "generators")))
       IN IF n.kind = "DictComp"
          THEN <<Call(p, "key", <<iv>>, <<>>), Call(p, "value", <<iv>>, <<>>)>>
          ELSE <<Call(p, "elt", <<iv>>, <<>>)>>

FunctionDefExt(n, p) ==
    <<Call(p, "args", <<dict(<<Pair(n.name, NodeRef(p))>>)>>, <<>>),
      Call(p, "body",
           <<dict(<<Pair(n.name, NodeRef(p))>>),
             extract_arg_names(Items(n, "args")[1], Append(p, Step("args", 1))),
             dict(find_assignments_in(n, p, "body"))>>,
           <<>>)>>

ClassDefExt(n, p) ==
    <<Call(p, "bases", <<>>, <<n.name>>),
      Call(p, "body", <<dict(find_assignments_in(n, p, "body"))>>, <<n.name>>)>>

ExceptHandlerExt(n, p) ==
    <<Call(p, "body", <<dict(<<Pair(n.name, FreshName(p))>>)>>, <<>>)>>

ForExt(n, p) == <<Call(p, "body", <<dict(find_names_in(n, p, "target"))>>, <<>>)>>

WithExt(n, p) == <<Call(p, "body", <<dict(find_names_in(n, p, "items"))>>, <<>>)>>

CompKinds == {"GeneratorExp", "ListComp", "SetComp", "DictComp"}
ExtendingKinds ==
    CompKinds \cup {"Lambda", "FunctionDef", "ClassDef", "ExceptHandler", "For", "With"}

Without(d, k) == [x \in DOMAIN d \ {k} |-> d[x]]

\* del new_scope[rem] for each rem; KeyError at the first key that is absent
RECURSIVE Remove(_, _)
Remove(d, rems) ==
    IF rems = <<>> THEN [exc |-> "", d |-> d]
    ELSE IF Head(rems) \notin DOMAIN d THEN [exc |-> "KeyError", d |-> d]
    ELSE Remove(Without(d, Head(rems)), Tail(rems))

\* an extend_scope that updates the current scope dictionary itself
extend_scope_inplace(h, r, c) ==
    LET new_scope == Remove(merge_dicts(<<h[r]>> \o c.dicts), c.remove)
    IN IF new_scope.exc # "" THEN [exc |-> new_scope.exc, heap |-> h, ctx |-> <<>>]
       ELSE [exc |-> "", heap |-> [h EXCEPT ![r] = new_scope.d],
             ctx |-> <<[at |-> c.at, f |-> c.f, ref |-> r]>>]

\* extend_scope(tree, *dicts, remove=...) with `scope` the dictionary h[r]:
\* a new dictionary, handed to set_ctx_for for the child field
extend_scope(h, r, c) ==
    LET new_scope == Remove(merge_dicts(<<h[r]>> \o c.dicts), c.remove)
    IN IF new_scope.exc # "" THEN [exc |-> new_scope.exc, heap |-> h, ctx |-> <<>>]
       ELSE [exc |-> "", heap |-> Append(h, new_scope.d),
             ctx |-> <<[at |-> c.at, f |-> c.f, ref |-> Len(h) + 1]>>]

\* the extend_scope calls of one Scoped.func invocation, in order
RECURSIVE ApplyCalls(_, _, _)
ApplyCalls(h, r, calls) ==
    IF calls = <<>> THEN [exc |-> "", heap |-> h, ctx |-> <<>>]
    ELSE LET first == extend_scope(h, r, Head(calls))
         IN IF first.exc # "" THEN first
            ELSE LET rest == ApplyCalls(first.heap, r, Tail(calls))
                 IN [exc |-> rest.exc, heap |-> rest.heap, ctx |-> first.ctx \o rest.ctx]

\* Walker.walk_children: the scope a child field is walked with, which is
\* the last context set for that field, else the node's own
FieldRef(sub_kw, at, f, r) ==
    LET hits == {i \in 1..Len(sub_kw) : sub_kw[i].at = at /\ sub_kw[i].f = f}
    IN IF hits = {} THEN r
       ELSE sub_kw[CHOOSE i \in hits : \A j \in hits : j <= i].ref

\* Scoped.func on the node at the head of todo, then the wrapped visitor,
\* then Walker.walk_children scheduling the children.
Visit(calls) ==
    LET it == Head(todo)
        n == NodeAt(tree, it.path)
        ext == ApplyCalls(heap, it.ref, calls)
        sub_kw == it.sub_kw \o ext.ctx
        kids == Kids(n, it.path)
    IN /\ heap' = ext.heap
       /\ IF ext.exc # ""
          THEN /\ status' = "aborted"
               /\ todo' = <<>>
               /\ visits' = Append(visits, [path |-> it.path, ref |-> it.ref,
                                            entry |-> heap[it.ref], seen |-> ext.heap[it.ref],
                                            called |-> FALSE])
          ELSE /\ visits' = Append(visits, [path |-> it.path, ref |-> it.ref,
                                            entry |-> heap[it.ref], seen |-> ext.heap[it.ref],
                                            called |-> TRUE])
               /\ todo' = [j \in 1..Len(kids) |->
                             [path |-> kids[j].path,
                              ref |-> FieldRef(sub_kw, it.path, kids[j].path[Len(kids[j].path)].f,
                                               it.ref),
                              sub_kw |-> sub_kw]]
                          \o Tail(todo)
               /\ status' = IF todo' = <<>> THEN "done" ELSE "walking"
       /\ UNCHANGED <<tree, mvars>>

AtKind(K) == status = "walking" /\ NodeAt(tree, Head(todo).path).kind \in K
Cur == NodeAt(tree, Head(todo).path)

VisitLambda == AtKind({"Lambda"}) /\ Visit(LambdaExt(Cur, Head(todo).path))
VisitComp == AtKind(CompKinds) /\ Visit(CompExt(Cur, Head(todo).path))
VisitFunctionDef == AtKind({"FunctionDef"}) /\ Visit(FunctionDefExt(Cur, Head(todo).path))
VisitClassDef == AtKind({"ClassDef"}) /\ Visit(ClassDefExt(Cur, Head(todo).path))
VisitExceptHandler == AtKind({"ExceptHandler"}) /\ Visit(ExceptHandlerExt(Cur, Head(todo).path))
VisitFor == AtKind({"For"}) /\ Visit(ForExt(Cur, Head(todo).path))
VisitWith == AtKind({"With"}) /\ Visit(WithExt(Cur, Head(todo).path))
VisitOther ==
    /\ status = "walking" /\ NodeAt(tree, Head(todo).path).kind \notin ExtendingKinds
    /\ Visit(<<>>)

\* Scoped.recurse_collect on the root: the caller's scope, else the hoisted
\* bindings of the tree
recurse_collect(given, scope) ==
    /\ status = "idle"
    /\ heap' = <<IF given THEN scope ELSE dict(find_assignments(tree, <<>>))>>
    /\ todo' = <<[path |-> <<>>, ref |-> 1, sub_kw |-> <<>>]>>
    /\ status' = "walking"
    /\ UNCHANGED <<tree, visits, mvars>>

(***************************************************************************)
(* The trees walked.                                                       *)
(***************************************************************************)
V == Name("v")
NoArg == <<>>
SimpleStmts ==
    {Assign(<<Name("x")>>, V), Assign(<<Name("y")>>, V),
     Assign(<<Attribute(Name("x"))>>, V), Expr(V)}
Blocks == UNION {[1..k -> SimpleStmts] : k \in 1..MaxBody}

ArgSpecs ==
    {arguments(<<>>, NoArg, <<>>, <<>>, NoArg, <<>>),                               \* ()
     arguments(<<arg("x")>>, NoArg, <<>>, <<>>, NoArg, <<V>>),                      \* (x=v)
     arguments(<<arg("x"), arg("y")>>, <<arg("a")>>, <<>>, <<>>, <<arg("kw")>>, <<>>),  \* (x, y, *a, **kw)
     arguments(<<>>, NoArg, <<arg("k")>>, <<V>>, NoArg, <<>>)}                      \* (*, k=v)

Compound(bodies) ==
    {FunctionDef("f", a, b, <<>>) : a \in ArgSpecs, b \in bodies}
    \cup {FunctionDef("f", arguments(<<arg("x")>>, NoArg, <<>>, <<>>, NoArg, <<>>), b, <<V>>) :
            b \in bodies}
    \cup {ClassDef("C", bases, b) : bases \in {<<>>, <<V>>}, b \in bodies}
    \cup {Try(<<Expr(V)>>, <<ExceptHandler(V, nm, b)>>) : nm \in {NoneKey, "e"}, b \in bodies}
    \cup {For(t, V, b) : t \in {Name("x"), TupleExpr(<<Name("x"), Name("y")>>)}, b \in bodies}
    \cup {With(<<withitem(ctx, ov)>>, b) :
            ctx \in {V, Attribute(V)}, ov \in {<<>>, <<Name("x")>>}, b \in bodies}
    \cup {If(V, b) : b \in bodies}

ExprStmts ==
    {Expr(Lambda(a, Name("x"))) :
        a \in {arguments(<<arg("x")>>, NoArg, <<>>, <<>>, NoArg, <<>>),
               arguments(<<>>, <<arg("a")>>, <<>>, <<>>, <<arg("kw")>>, <<>>)}}
    \cup {Expr(ListComp(Name("x"), <<comprehension(Name("x"), V, <<Name("x")>>)>>)),
          Expr(ListComp(Name("y"), <<comprehension(Name("x"), V, <<>>),
                                     comprehension(Name("y"), Name("x"), <<Name("y")>>)>>)),
          Expr(DictComp(Name("x"), Name("y"),
                        <<comprehension(TupleExpr(<<Name("x"), Name("y")>>), V, <<>>)>>))}

InnerStmts == Compound({<<Assign(<<Name("y")>>, V)>>})
Stmts ==
    Compound(Blocks)
    \cup Compound({<<c>> : c \in InnerStmts} \cup {<<c, Expr(V)>> : c \in InnerStmts})
    \cup ExprStmts
\* a class nested under an `if` in the body of a class, of the same name or not
IfNested ==
    {ClassDef("C", <<>>, <<If(V, <<ClassDef(nm, <<>>, <<Expr(V)>>)>>)>>) : nm \in {"C", "D"}}
Trees ==
    {Module(<<s>>) : s \in Stmts \cup IfNested}
    \cup {Module(<<s, Expr(V)>>) : s \in Stmts}
    \cup {Module(<<Assign(<<Name("x")>>, V), s>>) : s \in Stmts}

\* scope dictionaries a caller passes as the `scope` keyword
GivenScopes == {EmptyDict}

SIdle ==
    /\ status = "idle"
    /\ heap = <<>>
    /\ todo = <<>>
    /\ visits = <<>>

Start ==
    \/ recurse_collect(FALSE, EmptyDict)
    \/ \E scope \in GivenScopes : recurse_collect(TRUE, scope)

SNext ==
    \/ Start
    \/ VisitLambda \/ VisitComp \/ VisitFunctionDef \/ VisitClassDef
    \/ VisitExceptHandler \/ VisitFor \/ VisitWith
    \/ VisitOther

(***************************************************************************)
(* The specifications.                                                     *)
(***************************************************************************)
\* No matcher built yet; no traversal under way.
MInit == MIdle /\ SIdle /\ tree = Module(<<>>)
SpecMatch == MInit /\ [][MNext]_vars

\* Scoped.recurse_collect is about to be called on one of the trees.
SInit == SIdle /\ MIdle /\ tree \in Trees
SpecScoped == SInit /\ [][SNext]_vars

(***************************************************************************)
(* Properties of the Scoped traversal (checked under SpecScoped).          *)
(***************************************************************************)
Visits == SeqToSet(visits)
NodeOf(e) == NodeAt(tree, e.path)
\* the visits of the nodes of field f of the node at p
VisitsIn(p, f) ==
    {v \in Visits : Len(v.path) = Len(p) + 1 /\ SubSeq(v.path, 1, Len(p)) = p
                    /\ v.path[Len(v.path)].f = f}
\* the visits at or below the node(s) of field f of the node at p
VisitsBelow(p, f) ==
    {v \in Visits : Len(v.path) > Len(p) /\ SubSeq(v.path, 1, Len(p)) = p
                    /\ v.path[Len(p) + 1].f = f}
\* the visits of the later siblings of the node at p (same list, further on)
LaterSiblings(p) ==
    IF p = <<>> THEN {}
    ELSE {v \in Visits : /\ Len(v.path) = Len(p)
                         /\ SubSeq(v.path, 1, Len(p) - 1) = SubSeq(p, 1, Len(p) - 1)
                         /\ v.path[Len(p)].f = p[Len(p)].f
                         /\ v.path[Len(p)].i > p[Len(p)].i}

\* the names an assignment target binds
RECURSIVE TargetNames(_)
TargetNames(t) ==
    CASE t.kind = "Name" -> {t.name}
      [] t.kind \in {"Tuple", "List"} ->
            UNION {TargetNames(Items(t, "elts")[i]) : i \in 1..Len(Items(t, "elts"))}
      [] OTHER -> {}

\* the names a statement hoists into the block it is in: assignment targets
\* and def / class names, looking into nested blocks but not into a def or
\* class
RECURSIVE HoistedIn(_)
HoistedIn(n) ==
    CASE n.kind \in {"FunctionDef", "ClassDef"} -> {n.name}
      [] n.kind = "Assign" ->
            UNION {TargetNames(Items(n, "targets")[i]) : i \in 1..Len(Items(n, "targets"))}
      [] n.kind \in {"If", "For", "While", "With", "Try", "ExceptHandler"} ->
            UNION {UNION {HoistedIn(Items(n, f)[i]) : i \in 1..Len(Items(n, f))} :
                      f \in {"body", "orelse", "handlers", "finalbody"}}
      [] OTHER -> {}
Hoisted(stmts) == UNION {HoistedIn(stmts[i]) : i \in 1..Len(stmts)}

\* every parameter name of an arguments node
ParamNames(a) ==
    UNION {{Items(a, f)[i].name : i \in 1..Len(Items(a, f))} :
              f \in {"posonlyargs", "args", "vararg", "kwonlyargs", "kwarg"}}

\* d is S with the keys of New bound anew and nothing else changed
ExtendsBy(d, S, New) ==
    /\ DOMAIN d = DOMAIN S \cup New
    /\ \A k \in DOMAIN S \ New : d[k] = S[k]

\* C5: for a function definition f visited with scope S, the signature
\* (arguments node, parameters, defaults) sees S extended with f only, and
\* each statement of the body sees f, every parameter name of f and every
\* name hoisted from the body.
C5_FunctionScopes ==
    \A e \in Visits :
        NodeOf(e).kind = "FunctionDef" =>
            LET n == NodeOf(e)
            IN /\ \A v \in VisitsBelow(e.path, "args") :
                    /\ ExtendsBy(v.seen, e.seen, {n.name})
                    /\ v.seen[n.name] = NodeRef(e.path)
               /\ \A v \in VisitsIn(e.path, "body") :
                    {n.name} \cup ParamNames(Items(n, "args")[1]) \cup Hoisted(Items(n, "body"))
                        \subseteq DOMAIN v.seen

\* C6: for every class definition C the traversal comes to, with scope S: S
\* contains C; the base-class expressions see S without C; the statements
\* of the body see S plus the names hoisted from the body, without C; the
\* later siblings of the class still see S, with C.
C6_ClassScopes ==
    \A e \in Visits :
        NodeOf(e).kind = "ClassDef" =>
            LET n == NodeOf(e)
                S == e.seen
                H == Hoisted(Items(n, "body"))
            IN /\ n.name \in DOMAIN S
               /\ \A v \in VisitsIn(e.path, "bases") : v.seen = Without(S, n.name)
               /\ \A v \in VisitsIn(e.path, "body") :
                    /\ DOMAIN v.seen = (DOMAIN S \cup H) \ {n.name}
                    /\ \A k \in DOMAIN S \ (H \cup {n.name}) : v.seen[k] = S[k]
               /\ \A v \in LaterSiblings(e.path) : v.seen = S /\ n.name \in DOMAIN v.seen

\* the child fields Scoped gives an extended scope, by kind of node
ExtendedFields(n) ==
    CASE n.kind = "FunctionDef" -> {"args", "body"}
      [] n.kind = "ClassDef" -> {"bases", "body"}
      [] n.kind \in {"Lambda", "ExceptHandler", "For", "With"} -> {"body"}
      [] n.kind = "DictComp" -> {"key", "value"}
      [] n.kind \in CompKinds \ {"DictComp"} -> {"elt"}
      [] OTHER -> {}

\* C7: a node N of a kind that extends the scope of children is entered
\* with a scope S that Scoped.func leaves as it was, at once and for the rest
\* of the walk (also when the walk is cut short); where the scope was
\* extended the wrapped visitor is called on N with S; the children of N
\* that get no extended scope, and the later siblings of N, are visited with
\* S, the same mapping.
C7_NoScopeMutation ==
    \A e \in Visits :
        NodeOf(e).kind \in ExtendingKinds =>
            /\ e.seen = e.entry
            /\ heap[e.ref] = e.entry
            /\ \A f \in {NodeOf(e).fields[j].f : j \in 1..Len(NodeOf(e).fields)}
                        \ ExtendedFields(NodeOf(e)) :
                    \A v \in VisitsIn(e.path, f) : v.seen = e.entry /\ v.ref = e.ref
            /\ \A v \in LaterSiblings(e.path) : v.seen = e.entry /\ v.ref = e.ref

\* C7 witness: a walk has ended in which a node gave its body a binding that
\* neither its own scope, nor its unextended child, nor its later sibling
\* has.
C7_Witness ==
    /\ status = "done"
    /\ \E e \in Visits :
        /\ NodeOf(e).kind \in ExtendingKinds
        /\ \E b \in VisitsIn(e.path, "body"), c \in VisitsIn(e.path, "items"),
              s \in LaterSiblings(e.path) :
                \E k \in DOMAIN b.seen :
                    k \notin DOMAIN e.entry /\ k \notin DOMAIN c.seen /\ k \notin DOMAIN s.seen

\* the names the `as` targets of a with statement bind
WithTargets(n) ==
    UNION {UNION {TargetNames(Items(Items(n, "items")[i], "optional_vars")[j]) :
                     j \in 1..Len(Items(Items(n, "items")[i], "optional_vars"))} :
              i \in 1..Len(Items(n, "items"))}

\* C8: the body of a with-block visited with scope S sees S merged with
\* bindings for exactly the names its `as` targets bind.
C8_WithTargets ==
    \A e \in Visits :
        NodeOf(e).kind = "With" =>
            \A v \in VisitsIn(e.path, "body") : ExtendsBy(v.seen, e.seen, WithTargets(NodeOf(e)))

\* the identifiers that occur in a tree
RECURSIVE Identifiers(_)
Identifiers(n) ==
    (IF n.name \in {"", NoneKey} THEN {} ELSE {n.name})
    \cup UNION {Identifiers(Kids(n, <<>>)[j].node) : j \in 1..Len(Kids(n, <<>>))}

\* C9: every key of every scope the traversal passes to the visitor or
\* attaches to a child is an identifier of the tree or a key of the initial
\* scope.
C9_KeysAreIdentifiers ==
    /\ \A e \in Visits : DOMAIN e.seen \subseteq Identifiers(tree) \cup DOMAIN heap[1]
    /\ \A r \in 1..Len(heap) : DOMAIN heap[r] \subseteq Identifiers(tree) \cup DOMAIN heap[1]

\* C11: whenever the traversal comes to a class definition C, the scope it
\* is about to remove C from (the node's scope for the bases, the same
\* merged with the names hoisted from the body for the body) contains C,
\* and no traversal aborts with a lookup error.
C11_RemovalDefined ==
    /\ status # "aborted"
    /\ (status = "walking" /\ Cur.kind = "ClassDef") =>
            LET S == heap[Head(todo).ref]
            IN /\ Cur.name \in DOMAIN S
               /\ Cur.name \in DOMAIN merge_dicts(<<S, dict(find_assignments_in(Cur, Head(todo).path, "body"))>>)

====
